---- MODULE Spec2Model ----
(***************************************************************************)
(* Model of the Minesweeper knowledge base of src/minesweeper.py:          *)
(* class Sentence, class MinesweeperAI and the two oracle functions of     *)
(* class Minesweeper that feed it (is_mine, nearby_mines).                 *)
(*                                                                         *)
(* A cell is a pair <<i, j>>, 0-based as in the source.  A Sentence is a   *)
(* record [cells, count].  self.knowledge is a Python list, so it is a     *)
(* sequence here: order and duplicates are kept.                           *)
(***************************************************************************)
EXTENDS Integers, Sequences, FiniteSets, TLC

\* ---- bounds of the model ------------------------------------------------
\* Boards have at most MaxCells cells (height * width <= MaxCells).
MaxCells == 6
\* At most MaxCalls state-changing calls are made on one knowledge base.
MaxCalls == 3
\* Where mark_mine and mark_safe are also called from outside: boards of at
\* most MaxCellsAPI cells, at most MaxMarks such calls.
MaxCellsAPI == 4
MaxMarks == 2
\* A Sentence on its own: cells drawn from a board of at most
\* MaxCellsSentence cells, at most MaxSentenceCalls calls of mark_mine or
\* mark_safe on it.
\* Clues with any count from 0 to MaxCount, true or not, on boards of at
\* most MaxCellsAny cells.
MaxCellsAny == 4
MaxCount == 2
\* Clues fed in both orders: boards of at most MaxCellsOrder cells.
MaxCellsOrder == 6
\* All the operations of MinesweeperAI together: boards of at most
\* MaxCellsAll cells.
MaxCellsAll == 3
\* update_knowledge run on two hand-built sentences over a board of at most
\* MaxCellsLoop cells.
MaxCellsLoop == 4
MaxCellsSentence == 3
MaxSentenceCalls == 2

VARIABLES
    height, width,      \* MinesweeperAI.height / width (= Minesweeper's)
    board,              \* Minesweeper.mines: the set of cells holding a mine
    moves_made,         \* MinesweeperAI.moves_made
    mines,              \* MinesweeperAI.mines
    safes,              \* MinesweeperAI.safes
    knowledge,          \* MinesweeperAI.knowledge (list of Sentence)
    pc,                 \* "idle": no call running; "update": inside the
                        \* while loop of update_knowledge
    passes,             \* passes of the while loop run by the current call
    ret,                \* what the last move query returned
    history,            \* the state-changing calls made so far, in order
    prev                \* the knowledge state when the last add_knowledge
                        \* was entered

vars == <<height, width, board, moves_made, mines, safes, knowledge,
          pc, passes, ret, history, prev>>

\* ---- helpers --------------------------------------------------------------
Abs(x) == IF x < 0 THEN -x ELSE x

RECURSIVE Pow2(_)
Pow2(n) == IF n = 0 THEN 1 ELSE 2 * Pow2(n - 1)

\* The passes of the while loop of update_knowledge are counted up to this
\* number, one more than the subsets of the board, and no further, so that
\* a run that never leaves the loop still has finitely many states.
PassLimit == Pow2(height * width) + 1

\* itertools.product(range(height), range(width))
AllCells(h, w) == (0 .. h - 1) \X (0 .. w - 1)

\* The double loop over range(cell[0]-1, cell[0]+2) x range(cell[1]-1,
\* cell[1]+2), skipping the cell itself and the cells out of bounds.
Neighbours(cell, h, w) ==
    { c \in AllCells(h, w) :
        /\ c # cell
        /\ Abs(c[1] - cell[1]) <= 1
        /\ Abs(c[2] - cell[2]) <= 1 }

\* ---- class Minesweeper (the oracle) ---------------------------------------
is_mine(b, cell) == cell \in b

nearby_mines(b, cell, h, w) ==
    Cardinality({ c \in Neighbours(cell, h, w) : is_mine(b, c) })

\* ---- class Sentence -------------------------------------------------------
Sentence(cells, count) == [cells |-> cells, count |-> count]

\* known_mines with "<" written for "==" at line 107.
known_mines_WrongComparison(s) ==
    IF Cardinality(s.cells) < s.count THEN s.cells ELSE {}

known_mines(s) == IF Cardinality(s.cells) = s.count THEN s.cells ELSE {}

\* known_safes written as a copy of known_mines.
known_safes_CopyOfKnownMines(s) ==
    IF Cardinality(s.cells) = s.count THEN s.cells ELSE {}

known_safes(s) == IF s.count = 0 THEN s.cells ELSE {}

\* Sentence.mark_mine with the decrement of line 123 left out.
Sentence_mark_mine_NoDecrement(s, cell) ==
    IF cell \in s.cells
    THEN [cells |-> s.cells \ {cell}, count |-> s.count]
    ELSE s

\* Sentence.mark_mine without the test of line 121 (discard, then decrement).
Sentence_mark_mine_NoMembershipTest(s, cell) ==
    [cells |-> s.cells \ {cell}, count |-> s.count - 1]

Sentence_mark_mine(s, cell) ==
    IF cell \in s.cells
    THEN [cells |-> s.cells \ {cell}, count |-> s.count - 1]
    ELSE s

\* Sentence.mark_safe written as a copy of mark_mine, decrement included.
Sentence_mark_safe_Decrement(s, cell) ==
    IF cell \in s.cells
    THEN [cells |-> s.cells \ {cell}, count |-> s.count - 1]
    ELSE s

Sentence_mark_safe(s, cell) ==
    IF cell \in s.cells
    THEN [cells |-> s.cells \ {cell}, count |-> s.count]
    ELSE s

\* ---- class MinesweeperAI --------------------------------------------------
\* The knowledge state as one value: the four fields set by __init__.
KB == [moves_made |-> moves_made, mines |-> mines, safes |-> safes,
       knowledge |-> knowledge]

\* mark_mine that also takes the cell out of safes.
mark_mine_RemovesFromSafes(kb, cell) ==
    [kb EXCEPT !.mines = @ \cup {cell},
               !.safes = @ \ {cell},
               !.knowledge = [i \in DOMAIN @ |-> Sentence_mark_mine(@[i], cell)]]

\* mark_mine that stops at the first sentence holding the cell.
mark_mine_FirstSentenceOnly(kb, cell) ==
    LET hit == { i \in DOMAIN kb.knowledge : cell \in kb.knowledge[i].cells }
        first == IF hit = {} THEN 0
                 ELSE CHOOSE i \in hit : \A j \in hit : i <= j
    IN  [kb EXCEPT !.mines = @ \cup {cell},
                   !.knowledge = [i \in DOMAIN @ |->
                                     IF i = first
                                     THEN Sentence_mark_mine(@[i], cell)
                                     ELSE @[i]]]

mark_mine(kb, cell) ==
    [kb EXCEPT !.mines = @ \cup {cell},
               !.knowledge = [i \in DOMAIN @ |-> Sentence_mark_mine(@[i], cell)]]

\* mark_safe without the loop over self.knowledge (lines 153-154).
mark_safe_NoPropagation(kb, cell) == [kb EXCEPT !.safes = @ \cup {cell}]

mark_safe(kb, cell) ==
    [kb EXCEPT !.safes = @ \cup {cell},
               !.knowledge = [i \in DOMAIN @ |-> Sentence_mark_safe(@[i], cell)]]

\* add_knowledge without line 185: the new sentence carries count as given.
Ingest_CountNotAdjusted(kb, cell, count, h, w) ==
    LET kb1 == mark_safe([kb EXCEPT !.moves_made = @ \cup {cell}], cell)
        nb == Neighbours(cell, h, w)
        neighbors == { c \in nb : c \notin kb1.mines /\ c \notin kb1.safes }
    IN  IF neighbors # {}
        THEN [kb1 EXCEPT !.knowledge = Append(@, Sentence(neighbors, count))]
        ELSE kb1

\* add_knowledge with "cell not in self.safes" left out of the filter:
\* neighbours already known safe stay in the new sentence.
Ingest_SafesNotExcluded(kb, cell, count, h, w) ==
    LET kb1 == mark_safe([kb EXCEPT !.moves_made = @ \cup {cell}], cell)
        nb == Neighbours(cell, h, w)
        already_known_mines == Cardinality(nb \cap kb1.mines)
        neighbors == { c \in nb : c \notin kb1.mines }
        remaining_count == count - already_known_mines
    IN  IF neighbors # {}
        THEN [kb1 EXCEPT !.knowledge =
                  Append(@, Sentence(neighbors, remaining_count))]
        ELSE kb1

\* Lines 160-189 of add_knowledge: everything before update_knowledge().
Ingest(kb, cell, count, h, w) ==
    LET kb1 == mark_safe([kb EXCEPT !.moves_made = @ \cup {cell}], cell)
        nb == Neighbours(cell, h, w)
        already_known_mines == Cardinality(nb \cap kb1.mines)
        neighbors == { c \in nb : c \notin kb1.mines /\ c \notin kb1.safes }
        remaining_count == count - already_known_mines
    IN  IF neighbors # {}
        THEN [kb1 EXCEPT !.knowledge =
                  Append(@, Sentence(neighbors, remaining_count))]
        ELSE kb1

\* "for sentence in self.knowledge: new_mines.update(sentence.known_mines())"
NewMines(kn) == UNION { known_mines(kn[i]) : i \in DOMAIN kn }

NewSafes(kn) == UNION { known_safes(kn[i]) : i \in DOMAIN kn }

\* "for mine in new_mines: if mine not in self.mines: self.mark_mine(mine)"
RECURSIVE MarkNewMines(_, _)
MarkNewMines(kb, todo) ==
    IF todo = {} THEN kb
    ELSE LET mine == CHOOSE c \in todo : TRUE
         IN  MarkNewMines(IF mine \notin kb.mines THEN mark_mine(kb, mine)
                          ELSE kb,
                          todo \ {mine})

\* "for safe in new_safes: if safe not in self.safes: self.mark_safe(safe)"
RECURSIVE MarkNewSafes(_, _)
MarkNewSafes(kb, todo) ==
    IF todo = {} THEN kb
    ELSE LET safe == CHOOSE c \in todo : TRUE
         IN  MarkNewSafes(IF safe \notin kb.safes THEN mark_safe(kb, safe)
                          ELSE kb,
                          todo \ {safe})

\* "self.knowledge = [s for s in self.knowledge if s.cells]"
Prune(kn) == SelectSeq(kn, LAMBDA s : s.cells # {})

InSeq(x, seq) == \E i \in DOMAIN seq : seq[i] = x

\* Line 233 with the subset test the wrong way round.
CanSubtract_SubsetReversed(s1, s2) ==
    /\ s1 # s2
    /\ s1.cells \subseteq s2.cells
    /\ s2.cells # {}

\* Line 233 with the issubset test left out.
CanSubtract_NoSubsetTest(s1, s2) ==
    /\ s1 # s2
    /\ s2.cells # {}

\* The test of line 233 on the ordered pair (sentence1, sentence2).
CanSubtract(s1, s2) ==
    /\ s1 # s2
    /\ s2.cells \subseteq s1.cells
    /\ s2.cells # {}

\* The test of line 239: the candidate is kept only if it is new.
IsNewSentence(s, kn, new_sentences) ==
    ~InSeq(s, kn) /\ ~InSeq(s, new_sentences)

\* The nested loops of lines 230-241, pair number k of Len(kn)^2 in the
\* order the loops visit them; new_sentences is the list built so far.
RECURSIVE Combine(_, _, _)
Combine(kn, k, new_sentences) ==
    LET n == Len(kn) IN
    IF k >= n * n THEN new_sentences
    ELSE LET sentence1 == kn[(k \div n) + 1]
             sentence2 == kn[(k % n) + 1]
             new_sentence == Sentence(sentence1.cells \ sentence2.cells,
                                      sentence1.count - sentence2.count)
         IN  IF /\ CanSubtract(sentence1, sentence2)
                /\ new_sentence.count >= 0
                /\ IsNewSentence(new_sentence, kn, new_sentences)
             THEN Combine(kn, k + 1, Append(new_sentences, new_sentence))
             ELSE Combine(kn, k + 1, new_sentences)

\* "changed = False" of line 199 left out: changed keeps the True it had
\* on entering the loop.
Changed_NoReset(marked_mines, marked_safes, new_sentences) == TRUE

\* "changed = True" of line 241 left out: a pass that only derives new
\* sentences does not ask for another pass.
Changed_NotSetByNewSentence(marked_mines, marked_safes, new_sentences) ==
    \/ marked_mines # {}
    \/ marked_safes # {}

\* The value of changed at the end of a pass: reset at line 199, set at
\* lines 217, 223 and 241.
Changed(marked_mines, marked_safes, new_sentences) ==
    \/ marked_mines # {}
    \/ marked_safes # {}
    \/ new_sentences # <<>>

\* One pass of the body of "while changed" (lines 199-244): the knowledge
\* state it leaves and the value of changed at its end.
Pass(kb) ==
    LET new_mines == NewMines(kb.knowledge)
        new_safes == NewSafes(kb.knowledge)
        kb1 == MarkNewMines(kb, new_mines)
        kb2 == MarkNewSafes(kb1, new_safes)
        kn == Prune(kb2.knowledge)
        new_sentences == Combine(kn, 0, <<>>)
    IN  [kb |-> [kb2 EXCEPT !.knowledge = kn \o new_sentences],
         changed |-> Changed(new_mines \ kb.mines, new_safes \ kb1.safes,
                             new_sentences)]

\* update_knowledge as one function: passes repeated until changed is False.
RECURSIVE update_knowledge(_)
update_knowledge(kb) ==
    LET r == Pass(kb)
    IN  IF r.changed THEN update_knowledge(r.kb) ELSE r.kb

\* add_knowledge as one function: the state it returns with.
add_knowledge(kb, cell, count, h, w) ==
    update_knowledge(Ingest(kb, cell, count, h, w))

\* make_safe_move without the test of line 249.
SafeMoves_AnySafe(kb) == kb.safes

\* The cells make_safe_move may return (lines 248-250).
SafeMoves(kb) == { move \in kb.safes : move \notin kb.moves_made }

\* possible_moves without "- self.mines".
PossibleMoves_MinesNotRemoved(kb, h, w) == AllCells(h, w) \ kb.moves_made

\* possible_moves without "- self.moves_made".
PossibleMoves_MovesNotRemoved(kb, h, w) == AllCells(h, w) \ kb.mines

\* possible_moves of make_random_move (lines 255-256).
PossibleMoves(kb, h, w) == (AllCells(h, w) \ kb.moves_made) \ kb.mines

None == <<"None">>

\* ---- the state machine ----------------------------------------------------
\* A new game on a board of at most n cells: Minesweeper.__init__ accepts
\* 0 <= mines < height * width and MinesweeperAI.__init__ starts empty.
NewGame(n) ==
    /\ height \in 1 .. n
    /\ width \in 1 .. n
    /\ height * width <= n
    /\ board \in { b \in SUBSET AllCells(height, width) :
                     Cardinality(b) < height * width }
    /\ moves_made = {}
    /\ mines = {}
    /\ safes = {}
    /\ knowledge = <<>>
    /\ pc = "idle"
    /\ passes = 0
    /\ ret = [op |-> "none", val |-> None]
    /\ history = <<>>
    /\ prev = KB

Init == NewGame(MaxCells)

SetKB(kb) ==
    /\ moves_made' = kb.moves_made
    /\ mines' = kb.mines
    /\ safes' = kb.safes
    /\ knowledge' = kb.knowledge

\* add_knowledge(cell, count) up to the call of update_knowledge.
Enter(cell, count) ==
    /\ pc = "idle"
    /\ Len(history) < MaxCalls
    /\ SetKB(Ingest(KB, cell, count, height, width))
    /\ pc' = "update"
    /\ passes' = 0
    /\ ret' = [op |-> "none", val |-> None]
    /\ history' = Append(history, [op |-> "add", cell |-> cell, count |-> count])
    /\ prev' = KB
    /\ UNCHANGED <<height, width, board>>

\* The turn loop: a clue for a cell that is not a mine, with its true count.
AddKnowledge ==
    \E cell \in AllCells(height, width) \ board :
        Enter(cell, nearby_mines(board, cell, height, width))

\* One iteration of the while loop of update_knowledge.
UpdatePass ==
    /\ pc = "update"
    /\ LET r == Pass(KB) IN
         /\ SetKB(r.kb)
         /\ pc' = IF r.changed THEN "update" ELSE "idle"
    /\ passes' = IF passes < PassLimit THEN passes + 1 ELSE passes
    /\ UNCHANGED <<height, width, board, ret, history, prev>>

MakeSafeMove ==
    /\ pc = "idle"
    /\ \/ \E move \in SafeMoves(KB) : ret' = [op |-> "safe", val |-> move]
       \/ SafeMoves(KB) = {} /\ ret' = [op |-> "safe", val |-> None]
    /\ UNCHANGED <<height, width, board, moves_made, mines, safes, knowledge,
                   pc, passes, history, prev>>

MakeRandomMove ==
    /\ pc = "idle"
    /\ \/ \E move \in PossibleMoves(KB, height, width) :
            ret' = [op |-> "random", val |-> move]
       \/ PossibleMoves(KB, height, width) = {}
            /\ ret' = [op |-> "random", val |-> None]
    /\ UNCHANGED <<height, width, board, moves_made, mines, safes, knowledge,
                   pc, passes, history, prev>>

Next == AddKnowledge \/ UpdatePass \/ MakeSafeMove \/ MakeRandomMove

Spec == Init /\ [][Next]_vars

\* ---- the propagation primitives called from outside ----------------------
Marks == Cardinality({ i \in DOMAIN history : history[i].op # "add" })

MarkMine ==
    /\ pc = "idle"
    /\ Len(history) < MaxCalls
    /\ Marks < MaxMarks
    /\ \E cell \in AllCells(height, width) :
         /\ SetKB(mark_mine(KB, cell))
         /\ history' = Append(history,
                              [op |-> "mark_mine", cell |-> cell, count |-> 0])
    /\ UNCHANGED <<height, width, board, pc, passes, ret, prev>>

MarkSafe ==
    /\ pc = "idle"
    /\ Len(history) < MaxCalls
    /\ Marks < MaxMarks
    /\ \E cell \in AllCells(height, width) :
         /\ SetKB(mark_safe(KB, cell))
         /\ history' = Append(history,
                              [op |-> "mark_safe", cell |-> cell, count |-> 0])
    /\ UNCHANGED <<height, width, board, pc, passes, ret, prev>>

NextAPI == AddKnowledge \/ UpdatePass \/ MarkMine \/ MarkSafe

InitAPI == NewGame(MaxCellsAPI)

SpecAPI == InitAPI /\ [][NextAPI]_vars

\* ---- every operation of MinesweeperAI -----------------------------------------
NextAll ==
    \/ AddKnowledge
    \/ UpdatePass
    \/ MarkMine
    \/ MarkSafe
    \/ MakeSafeMove
    \/ MakeRandomMove

InitAll == NewGame(MaxCellsAll)

SpecAll == InitAll /\ [][NextAll]_vars

\* ---- clues only, small boards ------------------------------------------------
NextOrder == AddKnowledge \/ UpdatePass

InitOrder == NewGame(MaxCellsOrder)

SpecOrder == InitOrder /\ [][NextOrder]_vars

\* ---- clues with any count ---------------------------------------------------
\* add_knowledge(cell, count) for any in-bounds cell and any count >= 0.
AddAnyKnowledge ==
    \E cell \in AllCells(height, width) :
        \E count \in 0 .. MaxCount : Enter(cell, count)

NextAny == AddAnyKnowledge \/ UpdatePass

InitAny == NewGame(MaxCellsAny)

SpecAny == InitAny /\ [][NextAny]_vars

\* ---- the loop on its own ----------------------------------------------------
\* update_knowledge() has just been called on a knowledge base holding two
\* sentences A and B built by hand, both true of the same board: any
\* non-empty cell sets, each with the number of mines the board has there.
InitLoop ==
    /\ height \in 1 .. MaxCellsLoop
    /\ width \in 1 .. MaxCellsLoop
    /\ height * width <= MaxCellsLoop
    /\ board \in { b \in SUBSET AllCells(height, width) :
                     Cardinality(b) < height * width }
    /\ moves_made = {}
    /\ mines = {}
    /\ safes = {}
    /\ knowledge \in
         { << Sentence(A, Cardinality(A \cap board)),
              Sentence(B, Cardinality(B \cap board)) >> :
             A \in SUBSET AllCells(height, width) \ {{}},
             B \in SUBSET AllCells(height, width) \ {{}} }
    /\ pc = "update"
    /\ passes = 0
    /\ ret = [op |-> "none", val |-> None]
    /\ history = <<>>
    /\ prev = KB

SpecLoop == InitLoop /\ [][UpdatePass]_vars

\* ---- a Sentence on its own --------------------------------------------------
\* One Sentence, built by Sentence(cells, count) from any cells of the board
\* and any count, held as knowledge[1]; its four methods are called on it.
InitSentence ==
    /\ height \in 1 .. MaxCellsSentence
    /\ width \in 1 .. MaxCellsSentence
    /\ height * width <= MaxCellsSentence
    /\ board = {}
    /\ moves_made = {}
    /\ mines = {}
    /\ safes = {}
    /\ knowledge \in { <<Sentence(cells, count)>> :
                          cells \in SUBSET AllCells(height, width),
                          count \in -1 .. height * width + 1 }
    /\ pc = "idle"
    /\ passes = 0
    /\ ret = [op |-> "none", val |-> None]
    /\ history = <<>>
    /\ prev = KB

SentenceCall(op, cell) == [op |-> op, cell |-> cell, count |-> 0]

SentenceMarkMine ==
    /\ Len(history) < MaxSentenceCalls
    /\ \E cell \in AllCells(height, width) :
         /\ knowledge' = [knowledge EXCEPT ![1] = Sentence_mark_mine(@, cell)]
         /\ history' = Append(history, SentenceCall("Sentence.mark_mine", cell))
    /\ ret' = [op |-> "none", val |-> None]
    /\ UNCHANGED <<height, width, board, moves_made, mines, safes, pc, passes,
                   prev>>

SentenceMarkSafe ==
    /\ Len(history) < MaxSentenceCalls
    /\ \E cell \in AllCells(height, width) :
         /\ knowledge' = [knowledge EXCEPT ![1] = Sentence_mark_safe(@, cell)]
         /\ history' = Append(history, SentenceCall("Sentence.mark_safe", cell))
    /\ ret' = [op |-> "none", val |-> None]
    /\ UNCHANGED <<height, width, board, moves_made, mines, safes, pc, passes,
                   prev>>

KnownMines ==
    /\ ret' = [op |-> "known_mines", val |-> known_mines(knowledge[1])]
    /\ UNCHANGED <<height, width, board, moves_made, mines, safes, knowledge,
                   pc, passes, history, prev>>

KnownSafes ==
    /\ ret' = [op |-> "known_safes", val |-> known_safes(knowledge[1])]
    /\ UNCHANGED <<height, width, board, moves_made, mines, safes, knowledge,
                   pc, passes, history, prev>>

NextSentence ==
    SentenceMarkMine \/ SentenceMarkSafe \/ KnownMines \/ KnownSafes

SpecSentence == InitSentence /\ [][NextSentence]_vars

\* ---- properties ----------------------------------------------------------
Idle == pc = "idle"

Last == history[Len(history)]

\* C1: before and after every add_knowledge call with a true clue, no cell
\* is both in mines and in safes.
C1_MinesSafesDisjoint == Idle => mines \cap safes = {}

C1_Witness ==
    /\ Idle
    /\ Len(history) >= 2
    /\ mines # {}
    /\ safes \ moves_made # {}

\* C2: with true clues, every cell in mines holds a mine, no cell in safes
\* does, and make_safe_move never returns a cell that holds a mine.
C2_Sound ==
    /\ \A c \in mines : is_mine(board, c)
    /\ \A c \in safes : ~is_mine(board, c)
    /\ (ret.op = "safe" /\ ret.val # None) => ~is_mine(board, ret.val)

C2_Witness ==
    /\ ret.op = "safe"
    /\ ret.val # None
    /\ mines # {}

\* C3: with true clues the while loop of update_knowledge is left after at
\* most 2^(height*width) passes: while it is still running, fewer passes
\* than that have been made.
C3_Terminates == pc = "update" => passes < Pow2(height * width)

C3_Witness ==
    /\ Idle
    /\ passes >= 3
    /\ Len(knowledge) >= 3

\* C4: with true clues every stored sentence has 0 <= count <= |cells|,
\* at every moment it is in the knowledge list.
C4_CountInRange ==
    \A i \in DOMAIN knowledge :
        /\ 0 <= knowledge[i].count
        /\ knowledge[i].count <= Cardinality(knowledge[i].cells)

\* A sentence is a clue's own if some revealed cell's unknown neighbours are
\* exactly its cells; any other stored sentence came from subtraction.
IsClueSentence(s) ==
    \E cell \in moves_made :
        s.cells = (Neighbours(cell, height, width) \ mines) \ safes

C4_Witness ==
    /\ Idle
    /\ \E i \in DOMAIN knowledge : ~IsClueSentence(knowledge[i])
    /\ \E i \in DOMAIN knowledge : IsClueSentence(knowledge[i])

\* C5: when no call is running, no two sentences of the knowledge list are
\* equal (same cells and same count).
C5_NoTwoEqual ==
    Idle => \A i, j \in DOMAIN knowledge :
                i # j => knowledge[i] # knowledge[j]

\* C6: after add_knowledge, mark_mine or mark_safe has returned, no cell of
\* any stored sentence is in mines or in safes.
C6_NoResolvedCellInSentence ==
    Idle => \A i \in DOMAIN knowledge :
                knowledge[i].cells \cap (mines \cup safes) = {}

C6_Witness ==
    /\ Idle
    /\ Len(history) = 3
    /\ history[1].op = "add"
    /\ history[2].op # "add"
    /\ history[3].op = "add"
    /\ knowledge # <<>>
    /\ mines # {}

\* The last two calls were add_knowledge with the same cell and count.
SameClueTwice ==
    /\ Idle
    /\ Len(history) >= 2
    /\ Last.op = "add"
    /\ history[Len(history) - 1] = Last

\* C7: add_knowledge called twice in a row with the same arguments leaves
\* the knowledge state the first call left.
C7_Idempotent == SameClueTwice => KB = prev

\* C8: make_safe_move returns a cell of safes that is not in moves_made if
\* there is one and None otherwise, and leaves the knowledge state alone.
C8_SafeMove ==
    /\ [](ret.op = "safe" =>
             /\ ret.val = None <=> safes \subseteq moves_made
             /\ ret.val # None => ret.val \in safes \ moves_made)
    /\ [][MakeSafeMove => UNCHANGED <<moves_made, mines, safes, knowledge>>]_vars

C8_Witness ==
    /\ ret.op = "safe"
    /\ ret.val # None
    /\ moves_made # {}
    /\ mines # {}

\* C9: make_random_move returns only in-bounds cells that are neither in
\* moves_made nor in mines, can return each of them, and returns None
\* exactly when there is none.
C9_RandomMove ==
    LET free == { c \in AllCells(height, width) :
                    c \notin moves_made /\ c \notin mines }
    IN  /\ ret.op = "random" =>
             /\ ret.val = None <=> free = {}
             /\ ret.val # None => ret.val \in free
        /\ Idle => \A c \in free :
                      ENABLED (MakeRandomMove /\ ret' = [op |-> "random", val |-> c])

C9_Witness ==
    /\ ret.op = "random"
    /\ ret.val # None
    /\ moves_made # {}
    /\ mines # {}

\* Scenario B: 2x2 board, the only mine at (0,0), add_knowledge((1,1), 1)
\* then add_knowledge((0,1), 1) have returned.
ScenarioB ==
    /\ Idle
    /\ height = 2
    /\ width = 2
    /\ board = {<<0, 0>>}
    /\ history = << [op |-> "add", cell |-> <<1, 1>>, count |-> 1],
                    [op |-> "add", cell |-> <<0, 1>>, count |-> 1] >>

\* C10 as stated: in Scenario B make_safe_move returns None and
\* make_random_move never returns (0,0).
C10_ScenarioB ==
    ScenarioB =>
        /\ ret.op = "safe" => ret.val = None
        /\ ret.op = "random" => ret.val # <<0, 0>>

\* C10 amended: in Scenario B nothing is known to be a mine, make_safe_move
\* returns None and make_random_move returns one of the two cells not yet
\* revealed, (0,0) or (1,0).
C10_ScenarioB_Amended ==
    ScenarioB =>
        /\ mines = {}
        /\ ret.op = "safe" => ret.val = None
        /\ ret.op = "random" => ret.val \in {<<0, 0>>, <<1, 0>>}

C10_Witness == ScenarioB /\ ret.op = "random"

\* C11: S.mark_mine(c) with c in S.cells removes c, lowers count by exactly
\* 1 and keeps the other cells; with c not in S.cells, and so when called a
\* second time with the same c, it changes nothing.
C11_SentenceMarkMine ==
    [][\A c \in AllCells(height, width) :
         history' = Append(history, SentenceCall("Sentence.mark_mine", c)) =>
            LET S == knowledge[1]
                T == knowledge'[1]
            IN  /\ c \in S.cells =>
                      /\ c \notin T.cells
                      /\ T.cells \cup {c} = S.cells
                      /\ T.count = S.count - 1
                /\ c \notin S.cells => T = S
                /\ (history # <<>> /\ Last = SentenceCall("Sentence.mark_mine", c))
                      => T = S]_vars

C11_Witness ==
    /\ Len(history) = 2
    /\ history[1].op = "Sentence.mark_mine"
    /\ history[2] = history[1]
    /\ history[1].cell \in prev.knowledge[1].cells
    /\ knowledge[1].cells # {}

\* C12: known_mines returns cells when count = |cells| and the empty set
\* otherwise, known_safes returns cells when count = 0 and the empty set
\* otherwise, and neither changes the Sentence.
C12_KnownMinesSafes ==
    /\ [](ret.op = "known_mines" =>
             IF knowledge[1].count = Cardinality(knowledge[1].cells)
             THEN ret.val = knowledge[1].cells
             ELSE ret.val = {})
    /\ [](ret.op = "known_safes" =>
             IF knowledge[1].count = 0
             THEN ret.val = knowledge[1].cells
             ELSE ret.val = {})
    /\ [][(KnownMines \/ KnownSafes) => knowledge' = knowledge]_vars

C12_Witness ==
    /\ ret.op = "known_safes"
    /\ ret.val # {}
    /\ Cardinality(ret.val) >= 2
    /\ history # <<>>

\* The step is the call op(c) of the knowledge base.
IsCall(op, c) == history' = Append(history, [op |-> op, cell |-> c, count |-> 0])

\* Every sentence holding c loses it and its count drops by drop; the other
\* sentences, and the length and order of the list, stay as they are.
RemovedFromAll(c, drop) ==
    /\ Len(knowledge') = Len(knowledge)
    /\ \A i \in DOMAIN knowledge :
         IF c \in knowledge[i].cells
         THEN /\ knowledge'[i].cells = knowledge[i].cells \ {c}
              /\ knowledge'[i].count = knowledge[i].count - drop
         ELSE knowledge'[i] = knowledge[i]

\* C13: mark_mine(c) adds c to mines and removes c from every sentence
\* holding it, lowering that count by 1; mark_safe(c) does so for safes with
\* counts unchanged; neither touches anything else, and a call that repeats
\* an earlier one changes nothing.
C13_MarkFrame ==
    [][\A c \in AllCells(height, width) :
         /\ IsCall("mark_mine", c) =>
               /\ mines' = mines \cup {c}
               /\ safes' = safes
               /\ moves_made' = moves_made
               /\ RemovedFromAll(c, 1)
         /\ IsCall("mark_safe", c) =>
               /\ safes' = safes \cup {c}
               /\ mines' = mines
               /\ moves_made' = moves_made
               /\ RemovedFromAll(c, 0)
         /\ \A op \in {"mark_mine", "mark_safe"} :
               (IsCall(op, c) /\ \E i \in DOMAIN history :
                                    history[i] = [op |-> op, cell |-> c, count |-> 0])
                  => KB' = KB]_vars

C13_Witness ==
    /\ Len(history) = 3
    /\ history[1].op = "add"
    /\ history[2].op = "mark_mine"
    /\ history[3] = history[2]
    /\ Len(knowledge) >= 1
    /\ knowledge[1].count = history[1].count - 1

\* A pass from this state ends with changed = True and leaves the knowledge
\* state exactly as it found it: the loop, which has no other input, then
\* repeats that pass for ever.
LoopRepeats == LET r == Pass(KB) IN r.changed /\ r.kb = KB

\* C14: add_knowledge returns for every in-bounds cell and every count >= 0,
\* whatever clues were fed before: the loop of update_knowledge never comes
\* to a state from which it cannot be left.
C14_AlwaysReturns == pc = "update" => ~LoopRepeats

\* C15: when add_knowledge has returned after true clues, no sentence is
\* empty, none has count 0 or count = |cells|, every subtraction of a
\* non-empty subset sentence from a different sentence with a count >= 0 is
\* already in the list, and one more pass of the loop changes nothing.
C15_Fixpoint ==
    (Idle /\ history # <<>>) =>
        /\ \A i \in DOMAIN knowledge :
              /\ knowledge[i].cells # {}
              /\ knowledge[i].count # 0
              /\ knowledge[i].count # Cardinality(knowledge[i].cells)
        /\ \A i, j \in DOMAIN knowledge :
              LET A == knowledge[i]
                  B == knowledge[j]
              IN  (/\ A # B
                   /\ B.cells # {}
                   /\ B.cells \subseteq A.cells
                   /\ A.count - B.count >= 0)
                  => \E k \in DOMAIN knowledge :
                        /\ knowledge[k].cells = A.cells \ B.cells
                        /\ knowledge[k].count = A.count - B.count
        /\ LET r == Pass(KB) IN ~r.changed /\ r.kb = KB

C15_Witness ==
    /\ Idle
    /\ passes >= 2
    /\ \E i, j \in DOMAIN knowledge :
          /\ knowledge[j].cells # knowledge[i].cells
          /\ knowledge[j].cells \subseteq knowledge[i].cells

\* add_knowledge has just appended its sentence (or not) and is about to
\* run the loop.
JustIngested == pc = "update" /\ passes = 0 /\ Last.op = "add"

\* The in-bounds cells next to the cell of the last clue, that cell excluded.
ClueNeighbours ==
    { c \in AllCells(height, width) :
        /\ c # Last.cell
        /\ c[1] \in Last.cell[1] - 1 .. Last.cell[1] + 1
        /\ c[2] \in Last.cell[2] - 1 .. Last.cell[2] + 1 }

\* Those of them that were neither in mines nor in safes when the clue came.
ClueUnknown == (ClueNeighbours \ prev.mines) \ prev.safes

\* The clue's count less the neighbours already in mines.
ClueRemaining == Last.count - Cardinality(ClueNeighbours \cap prev.mines)

\* C16: the sentence add_knowledge(cell, count) appends before the loop has
\* as cells the in-bounds neighbours of cell in neither mines nor safes and
\* as count the clue's count less the neighbours already in mines; with no
\* such cell nothing is appended.
C16_ClueSentence ==
    JustIngested =>
        IF ClueUnknown # {}
        THEN /\ Len(knowledge) = Len(prev.knowledge) + 1
             /\ knowledge[Len(knowledge)].cells = ClueUnknown
             /\ knowledge[Len(knowledge)].count = ClueRemaining
        ELSE Len(knowledge) = Len(prev.knowledge)

C16_Witness ==
    /\ JustIngested
    /\ ClueUnknown # {}
    /\ ClueNeighbours \cap prev.mines # {}
    /\ ClueNeighbours \cap prev.safes # {}

\* add_knowledge has returned from its last call.
Returned == Idle /\ history # <<>> /\ Last.op = "add"

\* Scenario A: 1x2 board, the only mine at (0,0), add_knowledge((0,1), 1)
\* has returned.
ScenarioA ==
    /\ Idle
    /\ height = 1
    /\ width = 2
    /\ board = {<<0, 0>>}
    /\ history = << [op |-> "add", cell |-> <<0, 1>>, count |-> 1] >>

\* C17: when add_knowledge returns from a true clue whose count, less the
\* neighbours already in mines, equals the number of unknown neighbours,
\* these are all in mines; when it is 0 they are all in safes.  In
\* Scenario A mines = {(0,0)} and there is no safe move.
C17_ImmediateDeduction ==
    /\ Returned =>
          /\ ClueRemaining = Cardinality(ClueUnknown) => ClueUnknown \subseteq mines
          /\ ClueRemaining = 0 => ClueUnknown \subseteq safes
    /\ ScenarioA =>
          /\ mines = {<<0, 0>>}
          /\ safes \subseteq moves_made
          /\ ret.op = "safe" => ret.val = None

C17_Witness == ScenarioA /\ ret.op = "safe"

\* The two sentences the loop started from.
StartA == prev.knowledge[1]

StartB == prev.knowledge[2]

\* B's cells are a non-empty proper subset of A's.
ProperSubsetPair ==
    /\ StartB.cells # {}
    /\ StartB.cells \subseteq StartA.cells
    /\ StartB.cells # StartA.cells

\* Scenario C: {(0,0),(0,1)} = 0 and {(0,0),(0,1),(1,1)} = 0 both present.
ScenarioC ==
    /\ StartB = [cells |-> {<<0, 0>>, <<0, 1>>}, count |-> 0]
    /\ StartA = [cells |-> {<<0, 0>>, <<0, 1>>, <<1, 1>>}, count |-> 0]

\* C18: if the loop starts with two sentences A and B true of one board,
\* B's cells a non-empty proper subset of A's, then when it returns the
\* cells of A not in B are all in safes if A.count - B.count = 0 and all in
\* mines if A.count - B.count is their number; Scenario C makes (1,1) safe.
C18_SubsetInference ==
    Idle =>
        /\ ProperSubsetPair =>
              LET rest == StartA.cells \ StartB.cells
                  diff == StartA.count - StartB.count
              IN  /\ diff = 0 => rest \subseteq safes
                  /\ diff = Cardinality(rest) => rest \subseteq mines
        /\ ScenarioC => <<1, 1>> \in safes

C18_Witness ==
    /\ Idle
    /\ ProperSubsetPair
    /\ StartB.count = 1
    /\ StartA.count = 1
    /\ Cardinality(StartA.cells \ StartB.cells) = 2
    /\ Cardinality(StartB.cells) = 2

\* C19: across add_knowledge, mark_mine, mark_safe, make_safe_move and
\* make_random_move calls (each pass of the loop included), moves_made, mines
\* and safes only grow: no step removes a cell from any of them.
C19_Monotonic ==
    [][/\ moves_made \subseteq moves_made'
       /\ mines \subseteq mines'
       /\ safes \subseteq safes']_vars

\* A clue and a mark have been absorbed, a cell is in both mines and safes
\* and a query has returned.
C19_Witness ==
    /\ Idle
    /\ \E i \in DOMAIN history : history[i].op = "add"
    /\ \E i \in DOMAIN history : history[i].op = "mark_mine"
    /\ moves_made # {}
    /\ mines \cap safes # {}
    /\ ret.op = "random"

\* What C20 compares: the three sets and the set of sentences of the list.
Outcome(kb) ==
    [moves_made |-> kb.moves_made, mines |-> kb.mines, safes |-> kb.safes,
     constraints |-> { kb.knowledge[i] : i \in DOMAIN kb.knowledge }]

\* The state add_knowledge returns with after the clues of calls, in order,
\* starting from kb.
RECURSIVE Feed(_, _)
Feed(kb, calls) ==
    IF calls = <<>> THEN kb
    ELSE Feed(add_knowledge(kb, Head(calls).cell, Head(calls).count,
                            height, width),
              Tail(calls))

\* The last two clues of history, the later one first.
LastTwoSwapped ==
    << history[Len(history)], history[Len(history) - 1] >>

\* The state from which the last two clues were fed.
BeforeLastTwo ==
    Feed([moves_made |-> {}, mines |-> {}, safes |-> {}, knowledge |-> <<>>],
         SubSeq(history, 1, Len(history) - 2))

\* C20: when two true clues have been fed one after the other from a
\* reachable state, feeding them in the opposite order from that state gives
\* the same moves_made, mines, safes and the same set of sentences.
C20_OrderIndependent ==
    (Idle /\ Len(history) >= 2) =>
        Outcome(KB) = Outcome(Feed(BeforeLastTwo, LastTwoSwapped))

\* Two different clues fed, a mine deduced, and the two orders leaving
\* different lists (the same sentences, in another order or number).
C20_Witness ==
    /\ Idle
    /\ Len(history) >= 2
    /\ history[Len(history) - 1].cell # history[Len(history)].cell
    /\ mines # {}
    /\ knowledge # Feed(BeforeLastTwo, LastTwoSwapped).knowledge

TypeOK ==
    /\ pc \in {"idle", "update"}
    /\ mines \subseteq AllCells(height, width)
    /\ safes \subseteq AllCells(height, width)
    /\ moves_made \subseteq safes
====
